---- MODULE Spec2Model ----
(***************************************************************************)
(* Model of the prediction / explanation / drift tools (scripts/tools.py)  *)
(* and of the training procedure (scripts/train.py) of the Berlin          *)
(* logistics agent.                                                        *)
(*                                                                         *)
(* Python strings are sequences of one-character strings, so that strip(), *)
(* lower() and the substring test `in` are computed, not assumed.          *)
(* Python floats are modelled by exact rationals (pairs of integers).      *)
(* An optional value is a sequence of length 0 (None) or 1.                *)
(***************************************************************************)
EXTENDS Integers, Sequences, FiniteSets, TLC

VARIABLES
    pc,          \* tools.py module initialisation: "import", "loaded", "ready"
    MODEL,       \* tools.py global MODEL
    EXPLAINER,   \* tools.py global EXPLAINER
    loads,       \* number of joblib.load calls made by the tools process
    modelFile,   \* ../models/delivery_model.pkl
    statsFile,   \* ../models/training_stats.json
    tpc,         \* position of the training process inside train_delivery_model
    trun,        \* number of training runs started so far
    tstats,      \* label statistics of the corpus of the current training run
    tout,        \* how the last train_delivery_model call ended
    call,        \* the last tool call: operation and arguments
    result,      \* what that call returned (or that it raised)
    gen          \* generate_data.py: rows appended, the last row, the random draws

vars == <<pc, MODEL, EXPLAINER, loads, modelFile, statsFile,
          tpc, trun, tstats, tout, call, result, gen>>

----------------------------------------------------------------------------
(* Bounds of the model *)

\* training runs the training process may start
MaxRuns == 2

\* longest batch handed to check_data_drift
MaxBatchLen == 2

----------------------------------------------------------------------------
(* Optional values *)

None == <<>>

Some(v) == <<v>>

----------------------------------------------------------------------------
(* Python str operations used by _normalize_input and the vehicle test *)

\* str.lower() on one character
LowerChar(c) ==
    CASE c = "A" -> "a" [] c = "B" -> "b" [] c = "C" -> "c" [] c = "D" -> "d"
      [] c = "E" -> "e" [] c = "F" -> "f" [] c = "G" -> "g" [] c = "H" -> "h"
      [] c = "I" -> "i" [] c = "J" -> "j" [] c = "K" -> "k" [] c = "L" -> "l"
      [] c = "M" -> "m" [] c = "N" -> "n" [] c = "O" -> "o" [] c = "P" -> "p"
      [] c = "Q" -> "q" [] c = "R" -> "r" [] c = "S" -> "s" [] c = "T" -> "t"
      [] c = "U" -> "u" [] c = "V" -> "v" [] c = "W" -> "w" [] c = "X" -> "x"
      [] c = "Y" -> "y" [] c = "Z" -> "z" [] OTHER -> c

\* str.lower()
Lower(s) == [i \in 1..Len(s) |-> LowerChar(s[i])]

\* the characters str.strip() removes
IsSpace(c) == c \in {" ", "\t", "\n", "\r"}

\* str.strip(): drop leading and trailing whitespace
Strip(s) ==
    LET keep == {i \in 1..Len(s) : ~IsSpace(s[i])}
    IN  IF keep = {} THEN <<>>
        ELSE LET lo == CHOOSE i \in keep : \A j \in keep : i <= j
                 hi == CHOOSE i \in keep : \A j \in keep : j <= i
             IN  SubSeq(s, lo, hi)

\* Python `sub in s` for strings (the empty string is in every string)
In(sub, s) ==
    \E i \in 0..(Len(s) - Len(sub)) : SubSeq(s, i + 1, i + Len(sub)) = sub

----------------------------------------------------------------------------
(* Canonical options, in dict insertion order *)

Sunny  == <<"S","u","n","n","y">>
Cloudy == <<"C","l","o","u","d","y">>
Rainy  == <<"R","a","i","n","y">>
Snow   == <<"S","n","o","w">>
Low    == <<"L","o","w">>
Medium == <<"M","e","d","i","u","m">>
High   == <<"H","i","g","h">>
Junior == <<"J","u","n","i","o","r">>
Senior == <<"S","e","n","i","o","r">>
Expert == <<"E","x","p","e","r","t">>
ScooterStr == <<"S","c","o","o","t","e","r">>
VanStr == <<"V","a","n">>

\* list(weather_map.keys()), list(traffic_map.keys()), list(exp_map.keys())
WeatherOptions == <<Sunny, Cloudy, Rainy, Snow>>
TrafficOptions == <<Low, Medium, High>>
ExpOptions == <<Junior, Senior, Expert>>

\* dict.get(key, 1) on weather_map / traffic_map / exp_map
WeatherCode(w) ==
    CASE w = Sunny -> 0 [] w = Cloudy -> 1 [] w = Rainy -> 2 [] w = Snow -> 3
      [] OTHER -> 1
TrafficCode(t) ==
    CASE t = Low -> 0 [] t = Medium -> 1 [] t = High -> 2 [] OTHER -> 1
ExpCode(e) ==
    CASE e = Junior -> 0 [] e = Senior -> 1 [] e = Expert -> 2 [] OTHER -> 1

\* the `if` of the loop body: val_clean in opt.lower() or opt.lower() in val_clean
Matches(val_clean, opt) ==
    In(val_clean, Lower(opt)) \/ In(Lower(opt), val_clean)

\* the for loop of _normalize_input from option k on
RECURSIVE NormalizeFrom(_, _, _, _)
NormalizeFrom(val_clean, options, default, k) ==
    IF k > Len(options) THEN default
    ELSE IF Matches(val_clean, options[k]) THEN options[k]
    ELSE NormalizeFrom(val_clean, options, default, k + 1)

\* a loop that reports the last matching option instead of the first
RECURSIVE NormalizeLastFrom(_, _, _, _)
NormalizeLastFrom(val_clean, options, default, k) ==
    IF k < 1 THEN default
    ELSE IF Matches(val_clean, options[k]) THEN options[k]
    ELSE NormalizeLastFrom(val_clean, options, default, k - 1)

NormalizeInputLast(val, options, default) ==
    NormalizeLastFrom(Lower(Strip(val)), options, default, Len(options))

\* a normalisation that forgets .lower() on the input
NormalizeInputCaseSensitive(val, options, default) ==
    NormalizeFrom(Strip(val), options, default, 1)

\* _normalize_input
NormalizeInput(val, options, default) ==
    NormalizeFrom(Lower(Strip(val)), options, default, 1)

----------------------------------------------------------------------------
(* Feature encoding, once per tool as in the source *)

\* 1 if "<name>" in vehicle_type else 0
VehicleFlag(name, vehicle_type) == IF In(name, vehicle_type) THEN 1 ELSE 0

\* predict_delivery_time, steps 1 and 2: the row of input_df
EncodePredict(a) ==
    LET weather == NormalizeInput(a.weather, WeatherOptions, Cloudy)
        traffic_level == NormalizeInput(a.traffic_level, TrafficOptions, Medium)
        driver_experience == NormalizeInput(a.driver_experience, ExpOptions, Senior)
    IN  [distance_km |-> a.distance_km,
         weather_code |-> WeatherCode(weather),
         traffic_code |-> TrafficCode(traffic_level),
         exp_code |-> ExpCode(driver_experience),
         vehicle_type_Scooter |-> VehicleFlag(ScooterStr, a.vehicle_type),
         vehicle_type_Van |-> VehicleFlag(VanStr, a.vehicle_type)]

\* an explanation path that skips the normalisation of the traffic label
EncodeExplainRawTraffic(a) ==
    LET weather == NormalizeInput(a.weather, WeatherOptions, Cloudy)
        driver_experience == NormalizeInput(a.driver_experience, ExpOptions, Senior)
    IN  [distance_km |-> a.distance_km,
         weather_code |-> WeatherCode(weather),
         traffic_code |-> TrafficCode(a.traffic_level),
         exp_code |-> ExpCode(driver_experience),
         vehicle_type_Scooter |-> VehicleFlag(ScooterStr, a.vehicle_type),
         vehicle_type_Van |-> VehicleFlag(VanStr, a.vehicle_type)]

\* an explanation path that looks for "van" in lower case
EncodeExplainLowerVan(a) ==
    LET weather == NormalizeInput(a.weather, WeatherOptions, Cloudy)
        traffic_level == NormalizeInput(a.traffic_level, TrafficOptions, Medium)
        driver_experience == NormalizeInput(a.driver_experience, ExpOptions, Senior)
    IN  [distance_km |-> a.distance_km,
         weather_code |-> WeatherCode(weather),
         traffic_code |-> TrafficCode(traffic_level),
         exp_code |-> ExpCode(driver_experience),
         vehicle_type_Scooter |-> VehicleFlag(ScooterStr, a.vehicle_type),
         vehicle_type_Van |-> VehicleFlag(Lower(VanStr), a.vehicle_type)]

\* explain_delivery_prediction, steps 1 and 2: the row of input_df
EncodeExplain(a) ==
    LET weather == NormalizeInput(a.weather, WeatherOptions, Cloudy)
        traffic_level == NormalizeInput(a.traffic_level, TrafficOptions, Medium)
        driver_experience == NormalizeInput(a.driver_experience, ExpOptions, Senior)
    IN  [distance_km |-> a.distance_km,
         weather_code |-> WeatherCode(weather),
         traffic_code |-> TrafficCode(traffic_level),
         exp_code |-> ExpCode(driver_experience),
         vehicle_type_Scooter |-> VehicleFlag(ScooterStr, a.vehicle_type),
         vehicle_type_Van |-> VehicleFlag(VanStr, a.vehicle_type)]

----------------------------------------------------------------------------
(* The estimator and the explainer.  A duration is a whole number of ticks, *)
(* 640 ticks to the minute; a contribution is in 720ths of a tick.          *)

\* input_df.columns
FeatureNames ==
    {"distance_km", "weather_code", "traffic_code", "exp_code",
     "vehicle_type_Scooter", "vehicle_type_Van"}

Leaf(v) == [leaf |-> TRUE, value |-> v]

\* a split node: x[feature] <= threshold goes left; nl and nr are the numbers
\* of training samples that went left and right
Split(f, t, l, nl, r, nr) ==
    [leaf |-> FALSE, feature |-> f, threshold |-> t,
     left |-> l, nleft |-> nl, right |-> r, nright |-> nr]

\* the fitted forest of training run `run`: two trees (n_estimators is 100 in
\* the source), every run fitting other leaf values
Forest(run) ==
    << Split("distance_km", 2,
             Leaf(640 * (8 + run)), 3,
             Split("traffic_code", 1, Leaf(640 * 20), 1, Leaf(640 * 30), 1), 1),
       Split("vehicle_type_Van", 0,
             Split("weather_code", 1, Leaf(640 * 12), 1, Leaf(640 * 18), 1), 2,
             Split("exp_code", 0, Leaf(6400), 1, Leaf(6432), 1), 2) >>

RECURSIVE TreeExpectation(_, _, _)
\* the value of a tree at x when only the features in S are known: a split on
\* a known feature is followed, a split on an unknown one is averaged by the
\* training samples on each side (S all features: the tree's prediction)
TreeExpectation(node, S, x) ==
    IF node.leaf THEN node.value
    ELSE IF node.feature \in S
         THEN IF x[node.feature] <= node.threshold
              THEN TreeExpectation(node.left, S, x)
              ELSE TreeExpectation(node.right, S, x)
    ELSE (node.nleft * TreeExpectation(node.left, S, x)
          + node.nright * TreeExpectation(node.right, S, x))
         \div (node.nleft + node.nright)

\* the forest's mean over its trees
ForestExpectation(run, S, x) ==
    LET forest == Forest(run)
    IN  (TreeExpectation(forest[1], S, x) + TreeExpectation(forest[2], S, x)) \div 2

\* MODEL.predict(input_df)[0], in ticks
EstimatorPredict(run, x) == ForestExpectation(run, FeatureNames, x)

RECURSIVE Factorial(_)
Factorial(n) == IF n = 0 THEN 1 ELSE n * Factorial(n - 1)

RECURSIVE SumOver(_, _)
\* the sum of the function f over the set D
SumOver(f, D) ==
    IF D = {} THEN 0
    ELSE LET d == CHOOSE e \in D : TRUE IN f[d] + SumOver(f, D \ {d})

\* EXPLAINER(input_df): the tree explainer's base value (in ticks) and the
\* Shapley value of every feature (in 720ths of a tick)
ShapValues(run, x) ==
    LET v == [S \in SUBSET FeatureNames |-> ForestExpectation(run, S, x)]
        n == Cardinality(FeatureNames)
        phi(f) ==
            LET others == SUBSET (FeatureNames \ {f})
                term == [S \in others |->
                            Factorial(Cardinality(S)) * Factorial(n - Cardinality(S) - 1)
                            * (v[S \cup {f}] - v[S])]
            IN  SumOver(term, others)
    IN  [base_values |-> v[{}], values |-> [f \in FeatureNames |-> phi(f)]]

\* abs(impact) > 0.1: 0.1 minute is 64 ticks, 64 * 720 units
Shown(impact) == (IF impact < 0 THEN -impact ELSE impact) > 64 * 720

\* lines 151-168: the explainer's output and the features the report lists
Explanation(run, x) ==
    LET shap_values == ShapValues(run, x)
    IN  [base_value |-> shap_values.base_values,
         values |-> shap_values.values,
         listed |-> {f \in FeatureNames : Shown(shap_values.values[f])}]

----------------------------------------------------------------------------
(* Tool results *)

\* a call record: operation, DeliveryInput arguments, whether the estimator or
\* explainer raises, the drift batch, and the statistics file as the call read it
CallOf(op, a, fault, batch, stats) ==
    [op |-> op, args |-> a, fault |-> fault, batch |-> batch, stats |-> stats]

NoResult ==
    [kind |-> "none", msg |-> "", x |-> None, z |-> None, by |-> None,
     val |-> None]

ErrorResult(m, cause) ==
    [kind |-> "error", msg |-> m, x |-> None, z |-> None, by |-> Some(cause),
     val |-> None]

\* an exception that leaves the tool function
Raised(cause) ==
    [kind |-> "raised", msg |-> "", x |-> None, z |-> None, by |-> Some(cause),
     val |-> None]

\* a prediction path that never tests MODEL
PredictResultNoGuard(model, a, fault) ==
    IF fault \/ model = None THEN Raised("estimator")
    ELSE [kind |-> "minutes", msg |-> "minutes", x |-> Some(EncodePredict(a)),
          z |-> None, by |-> model,
          val |-> Some(EstimatorPredict(model[1], EncodePredict(a)))]

\* predict_delivery_time; fault: MODEL.predict raises
PredictResult(model, a, fault) ==
    IF model = None THEN ErrorResult("Error: Model not loaded.", "model")
    ELSE IF fault THEN Raised("estimator")
    ELSE [kind |-> "minutes", msg |-> "minutes", x |-> Some(EncodePredict(a)),
          z |-> None, by |-> model,
          val |-> Some(EstimatorPredict(model[1], EncodePredict(a)))]

\* explain_delivery_prediction; fault: EXPLAINER(input_df) raises
ExplainResult(explainer, a, fault) ==
    IF explainer = None
    THEN ErrorResult("Error: SHAP Explainer not loaded.", "explainer")
    ELSE IF fault THEN Raised("explainer")
    ELSE [kind |-> "report", msg |-> "Base Delivery Time (Avg)",
          x |-> Some(EncodeExplain(a)), z |-> None, by |-> explainer,
          val |-> Some(Explanation(explainer[1], EncodeExplain(a)))]

----------------------------------------------------------------------------
(* check_data_drift *)

RECURSIVE Sum(_)
\* sum(daily_delivery_times)
Sum(s) == IF s = <<>> THEN 0 ELSE Head(s) + Sum(Tail(s))

Abs(n) == IF n < 0 THEN -n ELSE n

\* abs(z_score) > 2 for the rational z = num / den, den # 0
AbsGreaterThanTwo(num, den) == Abs(num) > 2 * Abs(den)

\* a threshold test that also fires at exactly two standard deviations
AbsAtLeastTwo(num, den) == Abs(num) >= 2 * Abs(den)

\* the `if abs(z_score) > 2` of check_data_drift
DriftTest(num, den) == AbsGreaterThanTwo(num, den)

DriftError(cause) == ErrorResult("Error checking drift:", cause)

\* a drift check that treats an empty batch as a batch of mean 0
DriftResultEmptyAsZero(stats, batch) ==
    IF stats = None THEN DriftError("FileNotFoundError")
    ELSE IF stats[1].form = "unparsable" THEN DriftError("JSONDecodeError")
    ELSE IF stats[1].form = "nokey" THEN DriftError("KeyError")
    ELSE IF stats[1].std = 0 THEN DriftError("ZeroDivisionError")
    ELSE LET n == IF Len(batch) = 0 THEN 1 ELSE Len(batch)
             num == Sum(batch) - stats[1].mean * n
             den == n * stats[1].std
         IN  [kind |-> IF DriftTest(num, den) THEN "drift" ELSE "stable",
              msg |-> "Z-Score", x |-> None, z |-> Some(<<num, den>>),
              by |-> None, val |-> None]

\* check_data_drift on the file content `stats` and the list `batch`:
\* new_mean = Sum / n, z_score = (new_mean - mean) / std = (Sum - mean*n) / (n*std)
DriftResult(stats, batch) ==
    IF stats = None THEN DriftError("FileNotFoundError")
    ELSE IF stats[1].form = "unparsable" THEN DriftError("JSONDecodeError")
    ELSE IF stats[1].form = "nokey" THEN DriftError("KeyError")
    ELSE IF Len(batch) = 0 THEN DriftError("ZeroDivisionError")
    ELSE IF stats[1].std = 0 THEN DriftError("ZeroDivisionError")
    ELSE LET n == Len(batch)
             num == Sum(batch) - stats[1].mean * n
             den == n * stats[1].std
         IN  [kind |-> IF DriftTest(num, den) THEN "drift" ELSE "stable",
              msg |-> "Z-Score", x |-> None, z |-> Some(<<num, den>>),
              by |-> None, val |-> None]

----------------------------------------------------------------------------
(* Inputs *)

Str_Bike == <<"B","i","k","e">>
Str_van == <<"v","a","n">>
Str_ScooterVan == <<"S","c","o","o","t","e","r"," ","V","a","n">>
Str_Rain == <<"R","a","i","n">>
Str_rain == <<"r","a","i","n">>
Str_RAIN == <<"R","A","I","N">>
Str_raining == <<"r","a","i","n","i","n","g">>
Str_Foggy == <<"F","o","g","g","y">>
Str_empty == <<>>
Str_blank == <<" "," ">>
Str_padSnow == <<" ","s","n","o","w","\n">>
Str_n == <<"n">>
Str_jam == <<"j","a","m">>
Str_i == <<"i">>
Str_highway == <<"H","I","G","H","w","a","y">>
Str_pro == <<"p","r","o">>
Str_expert == <<"e","x","p","e","r","t">>

Args(v, w, d, t, e) ==
    [vehicle_type |-> v, weather |-> w, distance_km |-> d,
     traffic_level |-> t, driver_experience |-> e]

Vehicles == {Str_Bike, ScooterStr, VanStr, Str_van, Str_ScooterVan}
Weathers == {Rainy, Str_Rain, Str_rain, Str_RAIN, Str_raining, Str_Foggy,
             Str_empty, Str_blank, Str_padSnow, Str_n}
Traffics == {High, Str_jam, Str_i, Str_highway, Str_empty}
Experiences == {Junior, Str_pro, Str_expert, Str_blank}
Distances == {0, 5}

\* every combination of the field values above
AllArgs ==
    {Args(v, w, d, t, e) : v \in Vehicles, w \in Weathers, d \in Distances,
                           t \in Traffics, e \in Experiences}

\* the argument tuples used while the training process runs beside the tools
DefaultArgs == Args(VanStr, Str_Rain, 5, High, Junior)
SystemArgs ==
    {DefaultArgs, Args(Str_ScooterVan, Str_raining, 0, Str_empty, Str_blank)}

\* the delivery times a drift batch is made of
BatchValues == {95, 110, 120}

RECURSIVE SeqsUpTo(_, _)
SeqsUpTo(S, n) ==
    IF n = 0 THEN {<<>>}
    ELSE LET shorter == SeqsUpTo(S, n - 1)
         IN  shorter \cup {Append(s, v) : s \in shorter, v \in S}

Batches == SeqsUpTo(BatchValues, MaxBatchLen)

\* the batches used while all three tools are called
SystemBatches == {<<>>, <<110, 120>>}

\* label statistics (mean, std) of the corpora a training run may read
Corpora == {[mean |-> 90, std |-> 10], [mean |-> 100, std |-> 0]}

----------------------------------------------------------------------------
(* Files *)

ModelBytes(run, complete) == [run |-> run, ok |-> complete]

StatsBytes(form, run, mean, std) ==
    [form |-> form, run |-> run, mean |-> mean, std |-> std]

\* what ../models holds before the first step: nothing, or the artifacts of an
\* earlier training run (run 0), the statistics possibly lacking a key
InitialDisks ==
    {<<None, None>>,
     <<Some(ModelBytes(0, TRUE)), Some(StatsBytes("valid", 0, 90, 10))>>,
     <<Some(ModelBytes(0, TRUE)), Some(StatsBytes("nokey", 0, 0, 0))>>}

----------------------------------------------------------------------------
(* tools.py module initialisation *)

\* the model file exists and holds a complete pickle
Loadable(f) == IF f = None THEN FALSE ELSE f[1].ok

\* lines 12-17: joblib.load inside try / bare except
LoadModel ==
    /\ pc = "import"
    /\ loads' = loads + 1
    /\ \/ /\ Loadable(modelFile)
          /\ MODEL' = Some(modelFile[1].run)
       \/ /\ ~Loadable(modelFile)   \* no file, or a partial one: load raises
          /\ MODEL' = None
       \/ /\ Loadable(modelFile)    \* any other exception of joblib.load
          /\ MODEL' = None
    /\ pc' = "loaded"
    /\ UNCHANGED <<EXPLAINER, modelFile, statsFile, tpc, trun, tstats, tout,
                   call, result, gen>>

\* lines 19-26: EXPLAINER = None; if MODEL: try TreeExplainer(MODEL)
\* (a fitted forest of 100 trees is truthy)
BuildExplainer ==
    /\ pc = "loaded"
    /\ \/ /\ MODEL # None
          /\ EXPLAINER' = MODEL
       \/ /\ MODEL # None
          /\ EXPLAINER' = None      \* shap.TreeExplainer raised
       \/ /\ MODEL = None
          /\ EXPLAINER' = None
    /\ pc' = "ready"
    /\ UNCHANGED <<MODEL, loads, modelFile, statsFile, tpc, trun, tstats, tout,
                   call, result, gen>>

----------------------------------------------------------------------------
(* Tool calls *)

\* a prediction tool that retries the load when MODEL is None
PredictLazyLoad(a, fault) ==
    /\ pc = "ready"
    /\ fault => MODEL # None
    /\ call' = CallOf("predict", a, fault, <<>>, None)
    /\ IF MODEL = None /\ Loadable(modelFile)
       THEN /\ MODEL' = Some(modelFile[1].run)
            /\ loads' = loads + 1
            /\ result' = PredictResult(MODEL', a, fault)
       ELSE /\ result' = PredictResult(MODEL, a, fault)
            /\ UNCHANGED <<MODEL, loads>>
    /\ UNCHANGED <<pc, EXPLAINER, modelFile, statsFile, tpc, trun, tstats, tout, gen>>

\* a call of predict_delivery_time once the module is imported
Predict(a, fault) ==
    /\ pc = "ready"
    /\ fault => MODEL # None
    /\ call' = CallOf("predict", a, fault, <<>>, None)
    /\ result' = PredictResult(MODEL, a, fault)
    /\ UNCHANGED <<pc, MODEL, EXPLAINER, loads, modelFile, statsFile,
                   tpc, trun, tstats, tout, gen>>

\* a call of explain_delivery_prediction
Explain(a, fault) ==
    /\ pc = "ready"
    /\ fault => EXPLAINER # None
    /\ call' = CallOf("explain", a, fault, <<>>, None)
    /\ result' = ExplainResult(EXPLAINER, a, fault)
    /\ UNCHANGED <<pc, MODEL, EXPLAINER, loads, modelFile, statsFile,
                   tpc, trun, tstats, tout, gen>>

\* a call of check_data_drift: the file is read as it is on disk now
CheckDataDrift(batch) ==
    /\ pc = "ready"
    /\ call' = CallOf("drift", DefaultArgs, FALSE, batch, statsFile)
    /\ result' = DriftResult(statsFile, batch)
    /\ UNCHANGED <<pc, MODEL, EXPLAINER, loads, modelFile, statsFile,
                   tpc, trun, tstats, tout, gen>>

----------------------------------------------------------------------------
(* train_delivery_model, run by a process of its own (train.py __main__) *)

\* lines 9-50: pd.read_csv (only FileNotFoundError is caught), encode, split,
\* fit, evaluate; nothing shared is touched
TrainRead ==
    /\ tpc = "idle"
    /\ trun < MaxRuns
    /\ trun' = trun + 1
    /\ \/ /\ tpc' = "fitted"
          /\ tout' = "none"
       \/ /\ tout' = "None"         \* FileNotFoundError: print, return None
          /\ UNCHANGED tpc
       \/ /\ tout' = "raised"       \* EmptyDataError, PermissionError, KeyError, ...
          /\ UNCHANGED tpc
    /\ UNCHANGED <<pc, MODEL, EXPLAINER, loads, modelFile, statsFile, tstats,
                   call, result, gen>>

\* line 52, first half: joblib.dump opens the model file for writing
TrainDumpOpen ==
    /\ tpc = "fitted"
    /\ \/ /\ modelFile' = Some(ModelBytes(trun, FALSE))
          /\ tpc' = "dumping"
          /\ UNCHANGED tout
       \/ /\ tpc' = "idle"          \* ../models missing or not writable
          /\ tout' = "raised"
          /\ UNCHANGED modelFile
    /\ UNCHANGED <<pc, MODEL, EXPLAINER, loads, statsFile, trun, tstats,
                   call, result, gen>>

\* line 52, second half: the pickle is written and the file closed
TrainDumpWrite ==
    /\ tpc = "dumping"
    /\ \/ /\ modelFile' = Some(ModelBytes(trun, TRUE))
          /\ tpc' = "dumped"
          /\ UNCHANGED tout
       \/ /\ tpc' = "idle"          \* disk full: the partial file stays
          /\ tout' = "raised"
          /\ UNCHANGED modelFile
    /\ UNCHANGED <<pc, MODEL, EXPLAINER, loads, statsFile, trun, tstats,
                   call, result, gen>>

\* lines 55-61: y.mean() and y.std() of the corpus; open(..., "w") truncates
\* the statistics file
TrainStatsOpen ==
    /\ tpc = "dumped"
    /\ \E c \in Corpora :
          /\ tstats' = c
          /\ \/ /\ statsFile' = Some(StatsBytes("unparsable", trun, 0, 0))
                /\ tpc' = "writing"
                /\ UNCHANGED tout
             \/ /\ tpc' = "idle"
                /\ tout' = "raised"
                /\ UNCHANGED statsFile
    /\ UNCHANGED <<pc, MODEL, EXPLAINER, loads, modelFile, trun, call, result, gen>>

\* lines 62-65: json.dump, close, return model
TrainStatsWrite ==
    /\ tpc = "writing"
    /\ \/ /\ statsFile' = Some(StatsBytes("valid", trun, tstats.mean, tstats.std))
          /\ tpc' = "idle"
          /\ tout' = "model"
       \/ /\ tpc' = "idle"
          /\ tout' = "raised"
          /\ UNCHANGED statsFile
    /\ UNCHANGED <<pc, MODEL, EXPLAINER, loads, modelFile, trun, tstats,
                   call, result, gen>>

----------------------------------------------------------------------------
(* generate_data.py: one pass of the generation loop.  Lengths are in       *)
(* thousandths of a kilometre, multipliers in tenths, the noise in tenths   *)
(* of a minute.                                                            *)

\* rows the loop appends (NUM_ROWS in the source is 50000)
MaxRows == 1

\* the floor of max(5, final_duration)
MinDuration == 5

\* random.randint(8, 22), at the edges of the two rush-hour bands
Hours == {8, 9, 10, 16, 17, 19, 20, 22}

\* is_rush_hour
IsRushHour(random_hour) ==
    (8 <= random_hour /\ random_hour <= 9) \/ (17 <= random_hour /\ random_hour <= 19)

\* the values np.random.choice can return for traffic
TrafficChoices(random_hour) ==
    IF IsRushHour(random_hour) THEN {"High", "Medium"}
    ELSE {"Low", "Medium", "High"}

\* the random draws of one iteration: sin(dphi/2) and sin(dlambda/2) as small
\* signed integers, the size of a non-zero great-circle distance, the choices
\* and the additive noise of random.uniform(-2, 10)
Draws ==
    {[s1 |-> s1, s2 |-> s2, mag |-> mag, vehicle |-> v, weather |-> w,
      hour |-> h, traffic |-> t, driver_exp |-> e, noise |-> n] :
        s1 \in {-1, 0, 1}, s2 \in {0, 1}, mag \in {4, 9000},
        v \in {"Bike", "Scooter", "Van"},
        w \in {"Sunny", "Cloudy", "Rainy", "Snow"},
        h \in Hours, t \in {"Low", "Medium", "High"},
        e \in {"Junior", "Senior", "Expert"},
        n \in {-20, 0, 35, 100}}

\* the draws in which the traffic level is one the hour allows
Tapes == {d \in Draws : d.traffic \in TrafficChoices(d.hour)}

\* haversine, line 38: a = sin(dphi/2)**2 + cos(phi1)*cos(phi2)*sin(dlambda/2)**2,
\* in hundredths, with cos(phi) = 0.6 at Berlin's latitude
HavA(s1, s2) == 100 * s1 * s1 + 6 * 6 * s2 * s2

\* haversine, lines 39-40: c = 2 * atan2(sqrt(a), sqrt(1 - a)), R * c.
\* sqrt raises on a negative argument; atan2 of 0 and a positive number is 0,
\* of two positive numbers positive: the size is the draw's
Haversine(d) ==
    LET a == HavA(d.s1, d.s2)
    IN  IF a < 0 THEN None
        ELSE IF a = 0 THEN Some(0)
        ELSE Some(d.mag)

\* lines 80-82
Speed(vehicle) ==
    IF vehicle = "Bike" THEN 15 ELSE IF vehicle = "Scooter" THEN 25 ELSE 30

\* lines 90-91, in tenths
WeatherMultiplier(weather) ==
    IF weather = "Rainy" THEN 12 ELSE IF weather = "Snow" THEN 15 ELSE 10

\* lines 94-95, in tenths
TrafficMultiplier(traffic) ==
    IF traffic = "Medium" THEN 12 ELSE IF traffic = "High" THEN 15 ELSE 10

\* lines 98-99, in tenths
DriverMultiplier(driver_exp) ==
    IF driver_exp = "Junior" THEN 11 ELSE IF driver_exp = "Expert" THEN 9 ELSE 10

\* lines 84-104: final_duration = distance_km / speed * 60 * multipliers + noise,
\* as the numerator of a fraction over FinalDen
FinalNum(distance, d) ==
    distance * 60 * WeatherMultiplier(d.weather) * TrafficMultiplier(d.traffic)
             * DriverMultiplier(d.driver_exp)
    + d.noise * Speed(d.vehicle) * 100000

FinalDen(d) == Speed(d.vehicle) * 1000000

\* int(): truncation towards zero
IntOf(num, den) == IF num >= 0 THEN num \div den ELSE -((-num) \div den)

\* a row whose duration is int(final_duration), the floor forgotten
DurationMinsNoFloor(num, den) == IntOf(num, den)

\* line 125: int(max(5, final_duration))
DurationMins(num, den) ==
    IF num > MinDuration * den THEN IntOf(num, den) ELSE MinDuration

\* line 119: round(distance_km, 2), in hundredths (ties to even)
Round2(distance) ==
    LET m == IF distance < 0 THEN -distance ELSE distance
        q == m \div 10
        r == m % 10
        up == IF r > 5 \/ (r = 5 /\ q % 2 = 1) THEN q + 1 ELSE q
    IN  IF distance < 0 THEN -up ELSE up

\* lines 111-126: the row appended to data
Row(distance, d) ==
    [distance_km |-> Round2(distance),
     vehicle_type |-> d.vehicle,
     weather |-> d.weather,
     traffic_level |-> d.traffic,
     driver_experience |-> d.driver_exp,
     delivery_duration_mins |-> DurationMins(FinalNum(distance, d), FinalDen(d))]

\* the generator not started
GenIdle ==
    [pc |-> "idle", i |-> 0, data |-> None,
     rng |-> [s1 |-> 0, s2 |-> 0, mag |-> 4, vehicle |-> "Bike",
              weather |-> "Sunny", hour |-> 8, traffic |-> "High",
              driver_exp |-> "Senior", noise |-> 0]]

\* lines 46-126: one iteration of the loop
GenRow ==
    /\ gen.pc = "loop"
    /\ gen.i < MaxRows
    /\ LET distance_km == Haversine(gen.rng)
       IN  IF distance_km = None
           THEN gen' = [gen EXCEPT !.pc = "raised"]
           ELSE gen' = [gen EXCEPT !.i = gen.i + 1,
                                   !.data = Some(Row(distance_km[1], gen.rng))]
    /\ UNCHANGED <<pc, MODEL, EXPLAINER, loads, modelFile, statsFile,
                   tpc, trun, tstats, tout, call, result>>

\* lines 128-131: the loop is over, the corpus is written
GenWrite ==
    /\ gen.pc = "loop"
    /\ gen.i = MaxRows
    /\ gen' = [gen EXCEPT !.pc = "done"]
    /\ UNCHANGED <<pc, MODEL, EXPLAINER, loads, modelFile, statsFile,
                   tpc, trun, tstats, tout, call, result>>

----------------------------------------------------------------------------
(* The system: the tools process beside the training process *)

Init ==
    /\ pc = "import"
    /\ MODEL = None
    /\ EXPLAINER = None
    /\ loads = 0
    /\ \E d \in InitialDisks : modelFile = d[1] /\ statsFile = d[2]
    /\ tpc = "idle"
    /\ trun = 0
    /\ tstats = [mean |-> 0, std |-> 0]
    /\ tout = "none"
    /\ call = CallOf("none", DefaultArgs, FALSE, <<>>, None)
    /\ result = NoResult
    /\ gen = GenIdle

PredictCall == \E a \in SystemArgs, fault \in BOOLEAN : Predict(a, fault)

ExplainCall == \E a \in SystemArgs, fault \in BOOLEAN : Explain(a, fault)

DriftCall == \E batch \in SystemBatches : CheckDataDrift(batch)

Next ==
    \/ LoadModel
    \/ BuildExplainer
    \/ PredictCall
    \/ ExplainCall
    \/ DriftCall
    \/ TrainRead
    \/ TrainDumpOpen
    \/ TrainDumpWrite
    \/ TrainStatsOpen
    \/ TrainStatsWrite

Spec == Init /\ [][Next]_vars

----------------------------------------------------------------------------
(* The encoder on every combination of inputs: the tools process alone,    *)
(* started on the artifacts of a finished training run, called again and   *)
(* again with one argument tuple drawn at the start                        *)

EncInit ==
    /\ pc = "import"
    /\ MODEL = None
    /\ EXPLAINER = None
    /\ loads = 0
    /\ modelFile = Some(ModelBytes(0, TRUE))
    /\ statsFile = Some(StatsBytes("valid", 0, 90, 10))
    /\ tpc = "idle"
    /\ trun = 0
    /\ tstats = [mean |-> 0, std |-> 0]
    /\ tout = "none"
    /\ \E a \in AllArgs : call = CallOf("none", a, FALSE, <<>>, None)
    /\ result = NoResult
    /\ gen = GenIdle

EncPredict == \E fault \in BOOLEAN : Predict(call.args, fault)

EncExplain == \E fault \in BOOLEAN : Explain(call.args, fault)

EncNext ==
    \/ LoadModel
    \/ BuildExplainer
    \/ EncPredict
    \/ EncExplain

EncSpec == EncInit /\ [][EncNext]_vars

----------------------------------------------------------------------------
(* The drift monitor on every batch: the tools process and the training    *)
(* process, check_data_drift called again and again with one batch drawn   *)
(* at the start                                                            *)

DriftInit ==
    /\ pc = "import"
    /\ MODEL = None
    /\ EXPLAINER = None
    /\ loads = 0
    /\ \E d \in InitialDisks : modelFile = d[1] /\ statsFile = d[2]
    /\ tpc = "idle"
    /\ trun = 0
    /\ tstats = [mean |-> 0, std |-> 0]
    /\ tout = "none"
    /\ \E b \in Batches : call = CallOf("none", DefaultArgs, FALSE, b, None)
    /\ result = NoResult
    /\ gen = GenIdle

DriftHeld == CheckDataDrift(call.batch)

DriftNext ==
    \/ LoadModel
    \/ BuildExplainer
    \/ DriftHeld
    \/ TrainRead
    \/ TrainDumpOpen
    \/ TrainDumpWrite
    \/ TrainStatsOpen
    \/ TrainStatsWrite

DriftSpec == DriftInit /\ [][DriftNext]_vars

----------------------------------------------------------------------------
(* The generator alone, the draws of its iterations fixed at the start *)

GenInit ==
    /\ pc = "import"
    /\ MODEL = None
    /\ EXPLAINER = None
    /\ loads = 0
    /\ modelFile = None
    /\ statsFile = None
    /\ tpc = "idle"
    /\ trun = 0
    /\ tstats = [mean |-> 0, std |-> 0]
    /\ tout = "none"
    /\ call = CallOf("none", DefaultArgs, FALSE, <<>>, None)
    /\ result = NoResult
    /\ \E d \in Tapes : gen = [pc |-> "loop", i |-> 0, data |-> None, rng |-> d]

GenNext ==
    \/ GenRow
    \/ GenWrite

GenSpec == GenInit /\ [][GenNext]_vars

----------------------------------------------------------------------------
(* Properties of the feature encoder (EncSpec) *)

\* the last call built a feature vector
Encoded == call.op \in {"predict", "explain"} /\ result.x # None

\* C1 (as claimed): no vehicle_type text makes both vehicle_type_Scooter and
\* vehicle_type_Van equal to 1, and a text that is neither "Scooter" nor "Van"
\* (Bike, say) gives both indicators 0.
C1_NeverBothIndicators ==
    Encoded =>
        /\ ~(result.x[1].vehicle_type_Scooter = 1 /\ result.x[1].vehicle_type_Van = 1)
        /\ call.args.vehicle_type = Str_Bike =>
              /\ result.x[1].vehicle_type_Scooter = 0
              /\ result.x[1].vehicle_type_Van = 0

\* C2 (as claimed): the weather inputs "rain", "RAIN" and "raining" are each
\* normalised to "Rainy" and encode to weather_code 2, the code of "Rainy".
C2_RainSynonymsOriginal ==
    (Encoded /\ call.args.weather \in {Str_rain, Str_RAIN, Str_raining}) =>
        /\ NormalizeInput(call.args.weather, WeatherOptions, Cloudy) = Rainy
        /\ result.x[1].weather_code = 2
        /\ result.x[1].weather_code = WeatherCode(Rainy)

\* C2 (amended): "rain" and "RAIN" are normalised to "Rainy" and encode to
\* weather_code 2, the code of the input "Rainy"; "raining" neither contains
\* "rainy" nor is contained in it, is normalised to the default "Cloudy" and
\* encodes to weather_code 1.
C2_RainSynonyms ==
    Encoded =>
        /\ call.args.weather \in {Str_rain, Str_RAIN, Rainy} =>
              /\ NormalizeInput(call.args.weather, WeatherOptions, Cloudy) = Rainy
              /\ result.x[1].weather_code = 2
        /\ call.args.weather = Str_raining =>
              /\ NormalizeInput(call.args.weather, WeatherOptions, Cloudy) = Cloudy
              /\ result.x[1].weather_code = 1

\* a prediction was made for the upper-case input "RAIN"
C2_Witness ==
    /\ call.op = "predict"
    /\ result.kind = "minutes"
    /\ call.args.weather = Str_RAIN
    /\ result.x[1].weather_code = 2

\* C3: predict_delivery_time and explain_delivery_prediction build the same
\* feature vector from the same raw input, and in it weather_code is in 0..3,
\* traffic_code in 0..2 and exp_code in 0..2, whatever text was supplied.
C3_SameEncodingInDomain ==
    Encoded =>
        /\ result.x[1] = EncodePredict(call.args)
        /\ result.x[1] = EncodeExplain(call.args)
        /\ result.x[1].weather_code \in 0..3
        /\ result.x[1].traffic_code \in 0..2
        /\ result.x[1].exp_code \in 0..2

\* an explanation was computed for a traffic label that is no canonical option
C3_Witness ==
    /\ call.op = "explain"
    /\ result.kind = "report"
    /\ call.args.traffic_level = Str_highway
    /\ call.args.weather = Str_Foggy
    /\ result.x[1].traffic_code = 2

\* s has sub as a contiguous piece
Contains(s, sub) ==
    \E i \in 1..(Len(s) + 1), j \in 0..Len(s) : SubSeq(s, i, j) = sub

\* the option and the trimmed input, both lower-cased, contain one another
Related(val, opt) ==
    \/ Contains(Lower(opt), Lower(Strip(val)))
    \/ Contains(Lower(Strip(val)), Lower(opt))

\* what C4 says _normalize_input returns
C4_Expected(val, options, default) ==
    LET hits == {k \in 1..Len(options) : Related(val, options[k])}
    IN  IF hits = {} THEN default
        ELSE options[CHOOSE k \in hits : \A m \in hits : k <= m]

\* C4: _normalize_input returns the field default (Cloudy, Medium, Senior) when
\* no canonical option and the trimmed input contain one another ignoring case
\* ("Foggy" gives Cloudy, code 1), and otherwise the first such option in
\* declaration order, which for an empty or blank input is the first option
\* of the field (Sunny, Low, Junior).
C4_NormalizeFirstMatchOrDefault ==
    Encoded =>
        /\ NormalizeInput(call.args.weather, WeatherOptions, Cloudy)
              = C4_Expected(call.args.weather, WeatherOptions, Cloudy)
        /\ NormalizeInput(call.args.traffic_level, TrafficOptions, Medium)
              = C4_Expected(call.args.traffic_level, TrafficOptions, Medium)
        /\ NormalizeInput(call.args.driver_experience, ExpOptions, Senior)
              = C4_Expected(call.args.driver_experience, ExpOptions, Senior)
        /\ result.x[1].weather_code
              = WeatherCode(C4_Expected(call.args.weather, WeatherOptions, Cloudy))
        /\ result.x[1].traffic_code
              = TrafficCode(C4_Expected(call.args.traffic_level, TrafficOptions, Medium))
        /\ result.x[1].exp_code
              = ExpCode(C4_Expected(call.args.driver_experience, ExpOptions, Senior))
        /\ call.args.weather = Str_Foggy => result.x[1].weather_code = 1
        /\ call.args.weather \in {Str_empty, Str_blank} => result.x[1].weather_code = 0
        /\ call.args.traffic_level = Str_empty => result.x[1].traffic_code = 0
        /\ call.args.driver_experience = Str_blank => result.x[1].exp_code = 0
        /\ call.args.traffic_level = Str_jam => result.x[1].traffic_code = 1
        /\ call.args.driver_experience = Str_pro => result.x[1].exp_code = 1

\* a prediction for blank weather, empty traffic and an unknown experience label
C4_Witness ==
    /\ call.op = "predict"
    /\ result.kind = "minutes"
    /\ call.args.weather = Str_blank
    /\ call.args.traffic_level = Str_empty
    /\ call.args.driver_experience = Str_pro
    /\ result.x[1].weather_code = 0
    /\ result.x[1].traffic_code = 0
    /\ result.x[1].exp_code = 1

----------------------------------------------------------------------------
(* Properties of the running system (Spec; the drift monitor: DriftSpec) *)

\* C5: with MODEL None, predict_delivery_time returns "Error: Model not
\* loaded." and explain_delivery_prediction returns "Error: SHAP Explainer not
\* loaded.", neither raising; with the model loaded and no explainer built,
\* explain still returns its error string while predict (its estimator not
\* failing) returns a prediction; EXPLAINER is non-None only if MODEL is.
C5_UnavailableIsReported ==
    /\ EXPLAINER # None => MODEL # None
    /\ (call.op = "predict" /\ MODEL = None) =>
          /\ result.kind = "error"
          /\ result.msg = "Error: Model not loaded."
    /\ (call.op = "explain" /\ MODEL = None) =>
          /\ result.kind = "error"
          /\ result.msg = "Error: SHAP Explainer not loaded."
    /\ (call.op = "explain" /\ MODEL # None /\ EXPLAINER = None) =>
          /\ result.kind = "error"
          /\ result.msg = "Error: SHAP Explainer not loaded."
    /\ (call.op = "predict" /\ MODEL # None /\ ~call.fault) =>
          /\ result.kind = "minutes"
          /\ result.by = MODEL

\* the model loaded, the explainer was not built, and explain was called
C5_Witness ==
    /\ call.op = "explain"
    /\ MODEL # None
    /\ EXPLAINER = None
    /\ result.msg = "Error: SHAP Explainer not loaded."

\* the statistics a drift call read are a JSON object with both keys
ReadableStats(st) == IF st = None THEN FALSE ELSE st[1].form = "valid"

\* the statistics a drift call read have a standard deviation other than 0
NonZeroStd(st) == IF ReadableStats(st) THEN st[1].std # 0 ELSE FALSE

\* C6: for a non-empty batch and a readable baseline with non-zero std,
\* check_data_drift computes z = (mean(batch) - mean_duration) / std_duration
\* and reports drift exactly when |z| > 2, stable otherwise (|z| = 2 is
\* stable); with mean 90 and std 10 a batch mean of 115 gives z = 2.5 and
\* drift, a batch mean of 95 gives z = 0.5 and stable.
C6_DriftIffBeyondTwoStd ==
    (call.op = "drift" /\ call.batch # <<>> /\ NonZeroStd(call.stats)) =>
        LET n == Len(call.batch)
            total == Sum(call.batch)
            mean == call.stats[1].mean
            std == call.stats[1].std
            dev == IF total - mean * n < 0 THEN mean * n - total ELSE total - mean * n
            sd == IF std < 0 THEN -std ELSE std
        IN  /\ result.kind \in {"drift", "stable"}
            /\ result.z # None
            \* z = (total / n - mean) / std, as a fraction
            /\ result.z[1][1] * (n * std) = (total - mean * n) * result.z[1][2]
            /\ result.z[1][2] # 0
            /\ (result.kind = "drift") <=> (dev > 2 * sd * n)
            /\ (dev = 2 * sd * n) => result.kind = "stable"
            /\ (mean = 90 /\ std = 10 /\ total = 115 * n) =>
                  /\ result.kind = "drift"
                  /\ 2 * result.z[1][1] = 5 * result.z[1][2]
            /\ (mean = 90 /\ std = 10 /\ total = 95 * n) =>
                  /\ result.kind = "stable"
                  /\ 2 * result.z[1][1] = result.z[1][2]

\* a two-element batch of mean 115 was checked against mean 90, std 10
C6_Witness ==
    /\ call.op = "drift"
    /\ call.batch = <<110, 120>>
    /\ NonZeroStd(call.stats)
    /\ call.stats[1].mean = 90
    /\ call.stats[1].std = 10
    /\ result.kind = "drift"

\* C7: check_data_drift never raises; when the batch is empty, the statistics
\* file is missing or unparsable, a required key is absent, or std_duration is
\* 0, it returns a string beginning "Error checking drift:" and no verdict.
C7_DriftErrorsAreReported ==
    call.op = "drift" =>
        /\ result.kind # "raised"
        /\ (call.batch = <<>> \/ ~NonZeroStd(call.stats)) =>
              /\ result.kind = "error"
              /\ result.msg = "Error checking drift:"
              /\ result.z = None

\* an empty batch was checked against a readable baseline with non-zero std
C7_Witness ==
    /\ call.op = "drift"
    /\ call.batch = <<>>
    /\ NonZeroStd(call.stats)
    /\ result.kind = "error"

\* C8 (as claimed): the model file and the statistics file on disk always come
\* from the same training run, so no reader finds a complete model of one run
\* beside the statistics of another.
C8_ArtifactsFromSameRun ==
    (Loadable(modelFile) /\ ReadableStats(statsFile)) =>
        modelFile[1].run = statsFile[1].run

\* C9 (as claimed): no public operation lets a fault escape as an exception:
\* every tool call and every train_delivery_model call ends with a normal
\* result or a labelled error result.
C9_NoFaultEscapes ==
    /\ result.kind # "raised"
    /\ tout # "raised"

\* a step of one of the three tools
ToolStep == PredictCall \/ ExplainCall \/ DriftCall

\* a step of train_delivery_model
TrainStep ==
    \/ TrainRead
    \/ TrainDumpOpen
    \/ TrainDumpWrite
    \/ TrainStatsOpen
    \/ TrainStatsWrite

\* C10: the estimator is loaded at most once per process, at module
\* initialisation; after that MODEL and EXPLAINER never change, no tool call
\* changes MODEL, EXPLAINER, the model file or the statistics file, and the
\* files change only in steps of train_delivery_model.
C10_ToolsOnlyRead ==
    /\ [](loads <= 1)
    /\ [][pc = "ready" => UNCHANGED <<MODEL, EXPLAINER, loads>>]_vars
    /\ [][ToolStep => UNCHANGED <<MODEL, EXPLAINER, loads, modelFile, statsFile>>]_vars
    /\ [][(modelFile' # modelFile \/ statsFile' # statsFile) => TrainStep]_vars

\* a prediction was refused for want of a model although a complete model
\* file has been written since the module was imported
C10_Witness ==
    /\ call.op = "predict"
    /\ result.msg = "Error: Model not loaded."
    /\ loads = 1
    /\ MODEL = None
    /\ Loadable(modelFile)
    /\ tout = "model"

----------------------------------------------------------------------------
(* Properties of the generator (GenSpec) *)

\* C11: every record the generator emits has delivery_duration_mins >= 5 and
\* distance_km >= 0, whatever the districts, jitter, vehicle, weather, traffic,
\* experience and additive noise in [-2, 10].
C11_RowsFlooredAndNonNegative ==
    gen.data # None =>
        /\ gen.data[1].delivery_duration_mins >= 5
        /\ gen.data[1].distance_km >= 0

\* a row was appended whose duration before the floor was below 5 minutes
C11_Witness ==
    /\ gen.data # None
    /\ gen.rng.noise = -20
    /\ gen.data[1].distance_km = 0
    /\ FinalNum(0, gen.rng) < 5 * FinalDen(gen.rng)
    /\ gen.data[1].delivery_duration_mins = 5

----------------------------------------------------------------------------
(* Properties of the explanation (EncSpec) *)

====
